---- MODULE Spec2Model ----
(***************************************************************************)
(* Loan calculator (streamlit_app.py): compute_emi, amortization_schedule, *)
(* sensitivity_table and the Calculate block of the Streamlit script.      *)
(*                                                                         *)
(* Numbers.  The program computes in Python floats.  Here every amount is  *)
(* an exact rational <<n, d>> (d > 0, lowest terms), so each arithmetic    *)
(* operator below is the real-number operation the float operation rounds. *)
(* Rounding error of the floats is therefore not represented; comparisons, *)
(* min(), int() and the 0.01 threshold are computed as the code computes   *)
(* them.                                                                   *)
(***************************************************************************)
EXTENDS Integers, Sequences, FiniteSets, TLC

(***************************************************************************)
(* Exact rational arithmetic                                               *)
(***************************************************************************)
Abs(n) == IF n < 0 THEN -n ELSE n

RECURSIVE GCD(_, _)
GCD(a, b) == IF b = 0 THEN a ELSE GCD(b, a % b)

Norm(n, d) ==
    LET s == IF d < 0 THEN -1 ELSE 1
        g == GCD(Abs(n), Abs(d))
    IN  <<(s * n) \div g, (s * d) \div g>>

RInt(k) == <<k, 1>>
Zero == RInt(0)
One == RInt(1)

RNeg(x) == <<-x[1], x[2]>>

RAdd(x, y) ==
    LET g == GCD(x[2], y[2])
    IN  Norm(x[1] * (y[2] \div g) + y[1] * (x[2] \div g), (x[2] \div g) * y[2])

RSub(x, y) == RAdd(x, RNeg(y))

\* Cross-cancels before multiplying, so the products stay small.
RMul(x, y) ==
    LET g1 == GCD(Abs(x[1]), y[2])
        g2 == GCD(Abs(y[1]), x[2])
    IN  IF x[1] = 0 \/ y[1] = 0 THEN Zero
        ELSE <<(x[1] \div g1) * (y[1] \div g2), (x[2] \div g2) * (y[2] \div g1)>>

\* y # 0 (Python raises ZeroDivisionError otherwise)
RDiv(x, y) ==
    IF y[1] < 0 THEN RMul(x, <<-y[2], -y[1]>>) ELSE RMul(x, <<y[2], y[1]>>)

RLt(x, y) == RSub(x, y)[1] < 0
RLe(x, y) == RSub(x, y)[1] <= 0
RGt(x, y) == RLt(y, x)
RMin(x, y) == IF RLt(y, x) THEN y ELSE x
RMax(x, y) == IF RGt(y, x) THEN y ELSE x

\* x ** k for an integer k >= 0
RECURSIVE RPow(_, _)
RPow(x, k) == IF k = 0 THEN One ELSE RMul(x, RPow(x, k - 1))

\* int(x): truncation toward zero
Trunc(x) == IF x[1] >= 0 THEN x[1] \div x[2] ELSE -((-x[1]) \div x[2])

(***************************************************************************)
(* Bounds of the model and constants of the program                        *)
(***************************************************************************)
MaxMonths == 3
MaxList == 2
HardCap == 600
MonthsPerYear == 12
Epsilon == <<1, 100>>

Principals == {RInt(-1), Zero, <<1, 100>>, <<1, 50>>, One}
Rates == {Zero, RInt(120), RInt(1200)}
Months == {-(HardCap + 1)} \cup (-1 .. MaxMonths)
Extras == {RInt(-1), Zero, <<1, 100>>, One}
StartDates == {<<2024, 1, 31>>, <<2023, 11, 30>>}

(***************************************************************************)
(* start + relativedelta(months=k): the month moves k places, the day is   *)
(* clipped to the length of the month reached.                             *)
(***************************************************************************)
IsLeap(y) == (y % 4 = 0 /\ y % 100 # 0) \/ y % 400 = 0

DaysInMonth(y, mo) ==
    IF mo = 2 THEN (IF IsLeap(y) THEN 29 ELSE 28)
    ELSE IF mo \in {4, 6, 9, 11} THEN 30 ELSE 31

AddMonths(d, k) ==
    LET t == d[1] * 12 + (d[2] - 1) + k
        y == t \div 12
        mo == (t % 12) + 1
    IN  <<y, mo, IF d[3] < DaysInMonth(y, mo) THEN d[3] ELSE DaysInMonth(y, mo)>>

(***************************************************************************)
(* compute_emi                                                             *)
(***************************************************************************)
\* r = annual_rate_pct / 12 / 100
MonthlyRate(rate) == RDiv(RDiv(rate, RInt(12)), RInt(100))

\* the factor (1 + r) ** months left out of the numerator
compute_emi_no_growth_factor(p, rate, n) ==
    IF n <= 0 THEN Zero
    ELSE LET rr == MonthlyRate(rate)
         IN  IF rr = Zero THEN RDiv(p, RInt(n))
             ELSE RDiv(RMul(p, rr), RSub(RPow(RAdd(One, rr), n), One))
compute_emi(p, rate, n) ==
    IF n <= 0 THEN Zero
    ELSE LET rr == MonthlyRate(rate)
         IN  IF rr = Zero THEN RDiv(p, RInt(n))
             ELSE RDiv(RMul(RMul(p, rr), RPow(RAdd(One, rr), n)),
                       RSub(RPow(RAdd(One, rr), n), One))

(***************************************************************************)
(* State                                                                   *)
(***************************************************************************)
VARIABLES
    pc,               \* position of the running call
    principal, annual_rate_pct, months, start, extra_payment,  \* arguments
    r, emi, balance, rows, m,   \* locals of amortization_schedule
    df,               \* the value returned by amortization_schedule
    base_rate, years_list, rate_list,   \* further arguments of sensitivity_table
    out,              \* the table returned by sensitivity_table
    ui, widgets, loan_amount, calls     \* the Streamlit script run

args == <<principal, annual_rate_pct, months, start, extra_payment>>
locals == <<r, emi, balance, rows, m>>
sensArgs == <<base_rate, years_list, rate_list>>
uiVars == <<ui, widgets, loan_amount, calls>>
vars == <<pc, args, locals, df, sensArgs, out, uiVars>>

(***************************************************************************)
(* amortization_schedule, statement by statement                           *)
(***************************************************************************)
\* while balance > 0 and m < months + 600
WhileCondOffByOne(bal, mm, n) == RGt(bal, Zero) /\ mm <= n + HardCap
WhileCond(bal, mm, n) == RGt(bal, Zero) /\ mm < n + HardCap

Interest(rr, bal) == IF rr = Zero THEN Zero ELSE RMul(bal, rr)

\* min(emi + extra_payment [- interest], balance), floored at 0
PrincipalComponentNoMin(rr, e, extra, bal) ==
    LET raw == IF rr = Zero THEN RAdd(e, extra)
               ELSE RSub(RAdd(e, extra), RMul(bal, rr))
    IN  IF RLt(raw, Zero) THEN Zero ELSE raw
PrincipalComponentMinusExtra(rr, e, extra, bal) ==
    LET raw == IF rr = Zero THEN RMin(RSub(e, extra), bal)
               ELSE RMin(RSub(RSub(e, extra), RMul(bal, rr)), bal)
    IN  IF RLt(raw, Zero) THEN Zero ELSE raw
PrincipalComponent(rr, e, extra, bal) ==
    LET raw == IF rr = Zero THEN RMin(RAdd(e, extra), bal)
               ELSE RMin(RSub(RAdd(e, extra), RMul(bal, rr)), bal)
    IN  IF RLt(raw, Zero) THEN Zero ELSE raw

\* the row appended by one pass of the loop body (m already incremented)
LoopBody(rr, e, extra, st, bal, mm) ==
    LET interest == Interest(rr, bal)
        principal_component == PrincipalComponent(rr, e, extra, bal)
        new_balance == RSub(bal, principal_component)
        total_payment == RAdd(principal_component, interest)
    IN  ("Installment #" :> mm) @@
        ("Date" :> AddMonths(st, mm - 1)) @@
        ("Opening Balance" :> bal) @@
        ("EMI (excl. extra)" :> e) @@
        ("Extra Payment" :> extra) @@
        ("Interest" :> interest) @@
        ("Principal" :> principal_component) @@
        ("Total Payment" :> total_payment) @@
        ("Closing Balance" :> new_balance)

\* if balance <= 0.01: break
BreakCondAtZero(bal) == RLe(bal, Zero)
BreakCond(bal) == RLe(bal, Epsilon)

\* df.loc[df.index[-1], "Closing Balance"] = 0.0 when df is not empty
SnapLastSkipped(rs) == rs
SnapLastFirstRow(rs) ==
    IF rs = <<>> THEN rs
    ELSE [rs EXCEPT ![1] = [@ EXCEPT !["Closing Balance"] = Zero],
                    ![Len(rs)] = [@ EXCEPT !["Closing Balance"] = Zero]]
SnapLast(rs) ==
    IF rs = <<>> THEN rs
    ELSE [rs EXCEPT ![Len(rs)] = [@ EXCEPT !["Closing Balance"] = Zero]]

\* The whole call as a function of its arguments.  A loop state is
\* [bal, mm, rs, ended]; Pass is one trip round the while loop and leaves an
\* ended loop alone.  Passes applies Pass k times, splitting k in halves.
Pass(rr, e, extra, st, n, s) ==
    IF s.ended \/ ~WhileCond(s.bal, s.mm, n) THEN [s EXCEPT !.ended = TRUE]
    ELSE LET row == LoopBody(rr, e, extra, st, s.bal, s.mm + 1)
         IN  [bal |-> row["Closing Balance"], mm |-> s.mm + 1,
              rs |-> Append(s.rs, row),
              ended |-> BreakCond(row["Closing Balance"])]

RECURSIVE Passes(_, _, _, _, _, _, _)
Passes(rr, e, extra, st, n, s, k) ==
    IF k = 0 THEN s
    ELSE IF k = 1 THEN Pass(rr, e, extra, st, n, s)
    ELSE LET half == Passes(rr, e, extra, st, n, s, k \div 2)
         IN  IF half.ended THEN half
             ELSE Passes(rr, e, extra, st, n, half, k - (k \div 2))

\* The loop test lets through at most months + 600 passes; one more than that
\* many are offered, so the loop always ends by its own test or break.
RunLoop(rr, e, extra, st, n, bal) ==
    Passes(rr, e, extra, st, n,
           [bal |-> bal, mm |-> 0, rs |-> <<>>, ended |-> FALSE],
           (IF n + HardCap < 0 THEN 0 ELSE n + HardCap) + 1).rs

amortization_schedule(p, rate, n, st, extra) ==
    SnapLast(RunLoop(MonthlyRate(rate), compute_emi(p, rate, n), extra, st, n, p))

(***************************************************************************)
(* sensitivity_table                                                       *)
(***************************************************************************)
\* A dict is a sequence of <<key, value>> pairs in insertion order;
\* d[k] = v overwrites the value of an existing key in place.
HasKey(d, k) == \E i \in 1 .. Len(d) : d[i][1] = k
DictGet(d, k) == d[CHOOSE i \in 1 .. Len(d) : d[i][1] = k][2]
DictSet(d, k, v) ==
    IF HasKey(d, k) THEN [i \in 1 .. Len(d) |-> IF d[i][1] = k THEN <<k, v>> ELSE d[i]]
    ELSE Append(d, <<k, v>>)

RateKey == <<"Rate %">>
\* f"{y}y"
YearKey(y) == <<y[1], y[2], "y">>

\* months = int(y * 12)
SensMonthsRoundUp(y) ==
    LET x == RMul(y, RInt(MonthsPerYear))
    IN  IF RInt(Trunc(x)) = x THEN Trunc(x) ELSE Trunc(x) + 1
SensMonths(y) == Trunc(RMul(y, RInt(MonthsPerYear)))

RECURSIVE SensRow(_, _, _, _)
SensRow(p, rt, ys, row) ==
    IF ys = <<>> THEN row
    ELSE SensRow(p, rt, Tail(ys),
                 DictSet(row, YearKey(Head(ys)),
                         compute_emi(p, rt, SensMonths(Head(ys)))))

sensitivity_table(p, base, ys, rs) ==
    [i \in 1 .. Len(rs) |-> SensRow(p, rs[i], ys, <<<<RateKey, rs[i]>>>>)]

(***************************************************************************)
(* Calls of the core with arguments drawn from bounded sets                *)
(***************************************************************************)
RECURSIVE SeqsUpTo(_, _)
SeqsUpTo(S, k) ==
    IF k = 0 THEN {<<>>}
    ELSE LET shorter == SeqsUpTo(S, k - 1)
         IN  shorter \cup {Append(q, x) : q \in shorter, x \in S}

\* tenures in years: whole, fractional (int() truncates 1/8 * 12 = 1.5), negative
Years == {<<-1, 8>>, <<1, 8>>, <<1, 4>>, One}
SensRates == {Zero, RInt(1200)}
SensPrincipals == {RInt(-1), Zero, One, RInt(100)}

NoWidgets == <<>>

UiIdle ==
    /\ ui = "none"
    /\ widgets = NoWidgets
    /\ loan_amount = Zero
    /\ calls = <<>>

InitSchedule ==
    /\ pc = "call_schedule"
    /\ principal \in Principals
    /\ annual_rate_pct \in Rates
    /\ months \in Months
    /\ start \in StartDates
    /\ extra_payment \in Extras
    /\ base_rate = Zero /\ years_list = <<>> /\ rate_list = <<>>

InitTable ==
    /\ pc = "call_table"
    /\ principal \in SensPrincipals
    /\ base_rate \in SensRates
    /\ years_list \in SeqsUpTo(Years, MaxList)
    /\ rate_list \in SeqsUpTo(SensRates, MaxList)
    /\ annual_rate_pct = Zero /\ months = 0 /\ extra_payment = Zero
    /\ start \in StartDates

Init ==
    /\ InitSchedule \/ InitTable
    /\ r = Zero /\ emi = Zero /\ balance = Zero /\ rows = <<>> /\ m = 0
    /\ df = <<>>
    /\ out = <<>>
    /\ UiIdle

\* lines 50-54
Enter ==
    /\ pc = "call_schedule"
    /\ r' = MonthlyRate(annual_rate_pct)
    /\ emi' = compute_emi(principal, annual_rate_pct, months)
    /\ balance' = principal
    /\ rows' = <<>>
    /\ m' = 0
    /\ pc' = "loop"
    /\ UNCHANGED <<args, df, sensArgs, out, uiVars>>

\* lines 56-88: one pass of the loop, ending at the break or back at the test
Step ==
    /\ pc = "loop"
    /\ WhileCond(balance, m, months)
    /\ LET row == LoopBody(r, emi, extra_payment, start, balance, m + 1)
       IN  /\ m' = m + 1
           /\ rows' = Append(rows, row)
           /\ balance' = row["Closing Balance"]
           /\ pc' = IF BreakCond(row["Closing Balance"]) THEN "post" ELSE "loop"
    /\ UNCHANGED <<args, r, emi, df, sensArgs, out, uiVars>>

\* line 56: the loop test fails
WhileExit ==
    /\ pc = "loop"
    /\ ~WhileCond(balance, m, months)
    /\ pc' = "post"
    /\ UNCHANGED <<args, locals, df, sensArgs, out, uiVars>>

\* lines 90-94
Return ==
    /\ pc = "post"
    /\ df' = SnapLast(rows)
    /\ pc' = "done"
    /\ UNCHANGED <<args, locals, sensArgs, out, uiVars>>

\* lines 97-107
SensitivityTable ==
    /\ pc = "call_table"
    /\ out' = sensitivity_table(principal, base_rate, years_list, rate_list)
    /\ pc' = "table"
    /\ UNCHANGED <<args, locals, df, sensArgs, uiVars>>

Next == Enter \/ Step \/ WhileExit \/ Return \/ SensitivityTable

Spec == Init /\ [][Next]_vars

(***************************************************************************)
(* Properties of compute_emi and amortization_schedule                     *)
(***************************************************************************)
\* the sum of a column, rows lo..hi, splitting the range in halves
RECURSIVE SumRange(_, _, _, _)
SumRange(rs, col, lo, hi) ==
    IF lo > hi THEN Zero
    ELSE IF lo = hi THEN rs[lo][col]
    ELSE LET mid == (lo + hi) \div 2
         IN  RAdd(SumRange(rs, col, lo, mid), SumRange(rs, col, mid + 1, hi))
SumCol(rs, col) == SumRange(rs, col, 1, Len(rs))

RAbs(x) == IF x[1] < 0 THEN RNeg(x) ELSE x
Max0(k) == IF k < 0 THEN 0 ELSE k
LastRow(rs) == rs[Len(rs)]
\* the balance the last pass of the loop left, before the returned table zeroes it
Residual(rs) == RSub(LastRow(rs)["Opening Balance"], LastRow(rs)["Principal"])

Returned == pc = "done"
PlainLoan ==
    Returned /\ RGt(principal, Zero) /\ months > 0 /\ extra_payment = Zero

\* C1: whenever months <= 0, compute_emi returns 0 and the schedule returned
\* has no records.
C1_NoTermNoSchedule ==
    (Returned /\ months <= 0) => (emi = Zero /\ df = <<>>)

\* C2 (as claimed): the schedule returned has at most months + 600 records.
C2_AtMostMonthsPlus600 ==
    Returned => Len(df) <= months + HardCap

C2_CapInv ==
    /\ pc \in {"loop", "post", "done"} =>
          (Len(rows) = m /\ m <= Max0(months + HardCap))
    /\ Returned => Len(df) = m

\* C2 (amended): for every input the loop ends within max(0, months + 600)
\* passes and the call returns a schedule of at most that many records: every
\* pass adds one record and raises m by one, m never exceeds
\* max(0, months + 600), the loop is left only for the return, and the schedule
\* returned has m records.
C2_LoopEndsWithinCap ==
    /\ []C2_CapInv
    /\ [][(pc = "loop" /\ pc' # "post" /\ pc' # pc) => FALSE]_vars
    /\ [][(pc = "loop" /\ m' # m) => (m' = m + 1 /\ Len(rows') = Len(rows) + 1)]_vars
    /\ [][(pc = "loop" /\ pc' = "loop") => m' = m + 1]_vars

\* C2 witness: a schedule cut off at the cap with the balance still unpaid,
\* caused by a negative extra payment.
C2_Witness ==
    /\ Returned /\ months > 0 /\ RLt(extra_payment, Zero)
    /\ Len(df) = months + HardCap
    /\ RGt(balance, Epsilon)

\* C3 (as claimed): principal > 0, months = N > 0, no extra payment: exactly N
\* records, the last closing balance exactly 0.
C3_ExactlyNRecords ==
    PlainLoan => (Len(df) = months /\ LastRow(df)["Closing Balance"] = Zero)

\* C3 (amended): principal > 0, months = N > 0, no extra payment: between 1 and
\* N records and the last closing balance is exactly 0; all N records exactly
\* when N = 1 or emi > 0.01 * (1 + r), and then the N-th payment clears the
\* balance; otherwise the loop stops at the first balance <= 0.01, with fewer
\* than N records and a positive balance dropped.
C3_AtMostNRecords ==
    PlainLoan =>
        /\ 1 <= Len(df) /\ Len(df) <= months
        /\ LastRow(df)["Closing Balance"] = Zero
        /\ Len(df) = months <=>
              (months = 1 \/ RGt(emi, RMul(Epsilon, RAdd(One, r))))
        /\ Len(df) = months => Residual(df) = Zero
        /\ Len(df) < months =>
              (RGt(Residual(df), Zero) /\ RLe(Residual(df), Epsilon))

\* C3 witness: a plain loan whose schedule stopped before its N-th record.
C3_Witness == PlainLoan /\ Len(df) < months /\ Len(df) >= 2

\* C4 (as claimed): the Principal column of every schedule returned sums to the
\* original principal within 0.01.
C4_PrincipalConserved ==
    Returned => RLe(RAbs(RSub(principal, SumCol(df, "Principal"))), Epsilon)

\* C4 (amended): the Principal column of a non-empty schedule sums to the
\* principal less the balance the last pass left (>= 0), hence to the principal
\* within 0.01 whenever the loop ended by repayment (that balance <= 0.01); the
\* schedule is empty exactly when principal <= 0 or months + 600 <= 0.
C4_PrincipalConservedWhenRepaid ==
    Returned =>
        /\ df = <<>> <=> (RLe(principal, Zero) \/ months + HardCap <= 0)
        /\ df # <<>> =>
              /\ RAdd(SumCol(df, "Principal"), Residual(df)) = principal
              /\ RLe(Zero, Residual(df))
              /\ RLe(Residual(df), Epsilon) =>
                    RLe(RAbs(RSub(principal, SumCol(df, "Principal"))), Epsilon)

\* C4 witness: a schedule of several records that ended by repayment with a
\* positive balance below the threshold.
C4_Witness ==
    /\ Returned /\ Len(df) >= 2
    /\ RGt(Residual(df), Zero) /\ RLe(Residual(df), Epsilon)

\* C5 (as claimed): in every record closing = opening - principal portion and
\* closing >= 0, and the last closing balance is exactly 0.
C5_ClosingIsOpeningLessPrincipal ==
    Returned =>
        /\ \A i \in 1 .. Len(df) :
              /\ df[i]["Closing Balance"] =
                    RSub(df[i]["Opening Balance"], df[i]["Principal"])
              /\ RLe(Zero, df[i]["Closing Balance"])
        /\ df # <<>> => LastRow(df)["Closing Balance"] = Zero

\* C5 (amended): in every record but the last closing = opening - principal
\* portion and closing >= 0; the last closing balance is exactly 0, whatever
\* opening - principal portion (>= 0) of that record is.
C5_ClosingExceptLast ==
    Returned =>
        /\ \A i \in 1 .. Len(df) - 1 :
              /\ df[i]["Closing Balance"] =
                    RSub(df[i]["Opening Balance"], df[i]["Principal"])
              /\ RLe(Zero, df[i]["Closing Balance"])
        /\ df # <<>> =>
              /\ LastRow(df)["Closing Balance"] = Zero
              /\ RLe(Zero, Residual(df))

\* C5 witness: a schedule of several records whose last record has
\* opening - principal portion > 0 but closing balance 0.
C5_Witness ==
    /\ Returned /\ Len(df) >= 2
    /\ RGt(Residual(df), Zero)
    /\ LastRow(df)["Closing Balance"] = Zero

\* C6: with an extra payment > 0 the schedule has no more records than the
\* schedule of the same principal, rate, months and start with extra 0.
C6_ExtraNeverLengthens ==
    (Returned /\ RGt(extra_payment, Zero)) =>
        Len(df) <= Len(amortization_schedule(principal, annual_rate_pct,
                                             months, start, Zero))

\* C6 witness: an extra payment > 0 that shortened a schedule.
C6_Witness ==
    /\ Returned /\ RGt(extra_payment, Zero) /\ months > 0
    /\ Len(df) < Len(amortization_schedule(principal, annual_rate_pct,
                                           months, start, Zero))

\* C8 (as claimed): principal > 0, months > 0: emi > 0 and emi * months equals
\* principal + total interest of the no-extra schedule (within 0.01).
C8_EmiTimesTermIsTotalPaid ==
    PlainLoan =>
        /\ RGt(emi, Zero)
        /\ RLe(RAbs(RSub(RMul(emi, RInt(months)),
                         RAdd(principal, SumCol(df, "Interest")))), Epsilon)

\* C8 (amended): principal > 0, months = N > 0: emi > 0; emi * N equals
\* principal + total interest when the no-extra schedule has all N records;
\* when the schedule stopped early at a balance <= 0.01 it is at least that,
\* and larger at a non-zero rate.
C8_EmiTimesTermBoundsTotalPaid ==
    PlainLoan =>
        /\ RGt(emi, Zero)
        /\ emi = compute_emi(principal, annual_rate_pct, months)
        /\ Len(df) = months =>
              RMul(emi, RInt(months)) = RAdd(principal, SumCol(df, "Interest"))
        /\ RLe(RAdd(principal, SumCol(df, "Interest")), RMul(emi, RInt(months)))
        /\ (Len(df) < months /\ r # Zero) =>
              RLt(RAdd(principal, SumCol(df, "Interest")), RMul(emi, RInt(months)))

\* C8 witness: an interest-bearing plain loan whose schedule stopped early.
C8_Witness ==
    /\ PlainLoan /\ r # Zero /\ Len(df) < months
    /\ RLt(RAdd(principal, SumCol(df, "Interest")), RMul(emi, RInt(months)))

\* C10: installment numbers are 1..len in order, the first opening balance is
\* the principal, each later opening balance is the previous closing balance,
\* and every record but the last closes above 0.01.
C10_RecordsChain ==
    Returned =>
        /\ \A i \in 1 .. Len(df) : df[i]["Installment #"] = i
        /\ df # <<>> => df[1]["Opening Balance"] = principal
        /\ \A i \in 2 .. Len(df) :
              df[i]["Opening Balance"] = df[i - 1]["Closing Balance"]
        /\ \A i \in 1 .. Len(df) - 1 : RGt(df[i]["Closing Balance"], Epsilon)

\* C10 witness: a schedule of three or more records for a positive term.
C10_Witness == Returned /\ months > 0 /\ Len(df) >= 3 /\ Len(df) <= months

(***************************************************************************)
(* Properties of sensitivity_table                                         *)
(***************************************************************************)
Tabled == pc = "table"
YearSet == {years_list[j] : j \in 1 .. Len(years_list)}
TimesTwelve(y) == RMul(y, RInt(12))

\* C7 (as claimed): one row per rate, one column per tenure, and the cell at
\* (rate, tenureYears) is compute_emi(principal, rate, tenureYears x 12).
C7_CellIsEmiAtYearsTimes12 ==
    Tabled =>
        /\ Len(out) = Len(rate_list)
        /\ \A i \in 1 .. Len(out) :
              /\ DictGet(out[i], RateKey) = rate_list[i]
              /\ Len(out[i]) = 1 + Cardinality(YearSet)
              /\ \A y \in YearSet :
                    /\ HasKey(out[i], YearKey(y))
                    /\ TimesTwelve(y)[2] = 1
                    /\ DictGet(out[i], YearKey(y)) =
                          compute_emi(principal, rate_list[i], TimesTwelve(y)[1])

\* C7 (amended): one row per rate in list order, each row holding the rate and
\* one column per distinct tenure, and the cell at (rate, tenureYears) is
\* compute_emi(principal, rate, int(tenureYears x 12)): the month count is
\* truncated toward zero, so it is tenureYears x 12 only when that is whole.
C7_CellIsEmiAtTruncatedMonths ==
    Tabled =>
        /\ Len(out) = Len(rate_list)
        /\ \A i \in 1 .. Len(out) :
              /\ out[i][1] = <<RateKey, rate_list[i]>>
              /\ Len(out[i]) = 1 + Cardinality(YearSet)
              /\ \A y \in YearSet :
                    /\ HasKey(out[i], YearKey(y))
                    /\ DictGet(out[i], YearKey(y)) =
                          compute_emi(principal, rate_list[i],
                                      IF TimesTwelve(y)[1] >= 0
                                      THEN TimesTwelve(y)[1] \div TimesTwelve(y)[2]
                                      ELSE -((-TimesTwelve(y)[1]) \div TimesTwelve(y)[2]))

\* C7 witness: a 2 x 2 table at a non-zero rate holding a tenure whose month
\* count is not whole and a tenure of a whole year.
C7_Witness ==
    /\ Tabled /\ Len(out) = 2 /\ Len(out[1]) = 3
    /\ RGt(principal, Zero) /\ rate_list[1] # Zero
    /\ \E y \in YearSet : TimesTwelve(y)[2] # 1
    /\ One \in YearSet

(***************************************************************************)
(* The Streamlit script: every interaction reruns it from the top with the *)
(* current widget values.  A run records the calls it makes to the core,   *)
(* in order, with their arguments; the values the calls return are those   *)
(* of the operators above.                                                 *)
(***************************************************************************)
\* widget ranges (min_value / max_value of the inputs and sliders)
UiPropertyValues == {Zero, <<1, 100>>, RInt(100)}
UiDepositPercs == {0, 20, 90}
UiRates == {Zero, RInt(9)}
UiTenures == {1, 2}
UiExtras == {Zero, One}
UiFeeRates == {Zero, <<1, 2>>}
UiStartDates == {<<2024, 1, 31>>}

\* what the sidebar leaves in the script's variables: the advanced inputs keep
\* their initial values unless "Show Advanced Options" is on
WidgetValues ==
    {[property_value |-> pv, deposit_perc |-> dp, rate |-> rt, tenure_years |-> ty,
      start_date |-> sd, advanced |-> FALSE, extra_monthly |-> Zero,
      processing_fee_rate |-> Zero, insurance_rate |-> Zero,
      finance_fees |-> FALSE, calc |-> c] :
        pv \in UiPropertyValues, dp \in UiDepositPercs, rt \in UiRates,
        ty \in UiTenures, sd \in UiStartDates, c \in BOOLEAN}
    \cup
    {[property_value |-> pv, deposit_perc |-> dp, rate |-> rt, tenure_years |-> ty,
      start_date |-> sd, advanced |-> TRUE, extra_monthly |-> ex,
      processing_fee_rate |-> fee, insurance_rate |-> Zero,
      finance_fees |-> ff, calc |-> c] :
        pv \in UiPropertyValues, dp \in UiDepositPercs, rt \in UiRates,
        ty \in UiTenures, sd \in UiStartDates, c \in BOOLEAN,
        ex \in UiExtras, fee \in UiFeeRates, ff \in BOOLEAN}

\* deposit = property_value * deposit_perc / 100.0
Deposit(w) == RDiv(RMul(w.property_value, RInt(w.deposit_perc)), RInt(100))
\* loan_amount = max(property_value - deposit, 0.0)
LoanAmount(w) == RMax(RSub(w.property_value, Deposit(w)), Zero)

\* if loan_amount <= 0: st.error(...); st.stop()
StopGuardStrict(la) == RLt(la, Zero)
StopGuard(la) == RLe(la, Zero)

\* financed_principal
FinancedPrincipal(w) ==
    LET la == LoanAmount(w)
        processing_fee == RDiv(RMul(la, w.processing_fee_rate), RInt(100))
        insurance_fee == RDiv(RMul(la, w.insurance_rate), RInt(100))
    IN  RAdd(la, IF w.finance_fees THEN RAdd(processing_fee, insurance_fee) ELSE Zero)

\* list(range(lo, hi, step)), step > 0
RECURSIVE Range(_, _, _)
Range(lo, hi, step) == IF lo >= hi THEN <<>> ELSE <<lo>> \o Range(lo + step, hi, step)

\* np.arange(lo, hi, step), step > 0
RECURSIVE Arange(_, _, _)
Arange(lo, hi, step) ==
    IF RLe(hi, lo) THEN <<>> ELSE <<lo>> \o Arange(RAdd(lo, step), hi, step)

\* round(x, 1): to one decimal, ties to the even digit
Round1(x) ==
    LET t == RMul(x, RInt(10))
        f == t[1] \div t[2]
        frac == RSub(t, RInt(f))
        up == RGt(frac, <<1, 2>>) \/ (frac = <<1, 2>> /\ f % 2 = 1)
    IN  Norm(IF up THEN f + 1 ELSE f, 10)

YearsList(w) ==
    Range(IF w.tenure_years - 10 > 1 THEN w.tenure_years - 10 ELSE 1,
          w.tenure_years + 11, 2)
RateList(w) ==
    LET xs == Arange(RMax(Zero, RSub(w.rate, RInt(5))), RAdd(w.rate, <<51, 10>>),
                     <<1, 2>>)
    IN  [i \in 1 .. Len(xs) |-> Round1(xs[i])]

Call(fn, p, rest) == [fn |-> fn, principal |-> p, rest |-> rest]

\* the calls of one run that gets past the guard, in program order
CoreCalls(w) ==
    LET fp == FinancedPrincipal(w)
        la == LoanAmount(w)
        mths == w.tenure_years * MonthsPerYear
        ys == YearsList(w)
        rs == RateList(w)
    IN  <<Call("compute_emi", fp, <<w.rate, mths>>),
          Call("amortization_schedule", fp,
               <<w.rate, mths, w.start_date, w.extra_monthly>>),
          Call("sensitivity_table", la, <<w.rate, ys, rs>>)>>
        \o [i \in 1 .. Len(rs) |-> Call("compute_emi", la, <<rs[i], mths>>)]
        \o [j \in 1 .. Len(ys) |-> Call("compute_emi", la, <<w.rate, ys[j] * 12>>)]

InitUI ==
    /\ ui = "start"
    /\ widgets = NoWidgets
    /\ loan_amount = Zero
    /\ calls = <<>>
    /\ pc = "none"
    /\ principal = Zero /\ annual_rate_pct = Zero /\ months = 0
    /\ start \in UiStartDates /\ extra_payment = Zero
    /\ r = Zero /\ emi = Zero /\ balance = Zero /\ rows = <<>> /\ m = 0
    /\ df = <<>>
    /\ base_rate = Zero /\ years_list = <<>> /\ rate_list = <<>>
    /\ out = <<>>

coreVars == <<pc, args, locals, df, sensArgs, out>>

\* Calculate not pressed: the script shows the hint and ends
RunIdle ==
    \E w \in WidgetValues :
        /\ ~w.calc
        /\ widgets' = w
        /\ loan_amount' = LoanAmount(w)
        /\ calls' = <<>>
        /\ ui' = "info"
        /\ UNCHANGED coreVars

\* Calculate pressed, loan amount <= 0: st.error and st.stop()
RunStopped ==
    \E w \in WidgetValues :
        /\ w.calc
        /\ StopGuard(LoanAmount(w))
        /\ widgets' = w
        /\ loan_amount' = LoanAmount(w)
        /\ calls' = <<>>
        /\ ui' = "stopped"
        /\ UNCHANGED coreVars

\* Calculate pressed, loan amount > 0: the results are computed and shown
RunResults ==
    \E w \in WidgetValues :
        /\ w.calc
        /\ ~StopGuard(LoanAmount(w))
        /\ widgets' = w
        /\ loan_amount' = LoanAmount(w)
        /\ calls' = CoreCalls(w)
        /\ ui' = "results"
        /\ UNCHANGED coreVars

NextUI == RunIdle \/ RunStopped \/ RunResults

SpecUI == InitUI /\ [][NextUI]_vars

\* C9: Calculate pressed with a loan amount (asset value less deposit, floored
\* at 0) that is <= 0 stops the run with an error before any call to the core,
\* and every call a run makes to the core has principal > 0.
C9_NoCoreCallWithoutLoan ==
    ui # "start" =>
        /\ loan_amount =
              RMax(Zero, RSub(widgets.property_value,
                              RDiv(RMul(widgets.property_value,
                                        RInt(widgets.deposit_perc)), RInt(100))))
        /\ RLe(Zero, loan_amount)
        /\ (widgets.calc /\ RLe(loan_amount, Zero)) =>
              (ui = "stopped" /\ calls = <<>>)
        /\ ui = "stopped" => (widgets.calc /\ RLe(loan_amount, Zero))
        /\ ui = "results" =>
              /\ Len(calls) >= 3
              /\ {calls[k].fn : k \in 1 .. Len(calls)} =
                    {"compute_emi", "amortization_schedule", "sensitivity_table"}
        /\ \A k \in 1 .. Len(calls) : RGt(calls[k].principal, Zero)

\* C9 witness: Calculate pressed on an asset worth 0, the run stopped with no
\* call made.
C9_Witness ==
    /\ ui = "stopped" /\ widgets.calc
    /\ widgets.property_value = Zero /\ loan_amount = Zero
    /\ calls = <<>>

====
